---- MODULE Spec2Model ----
(***************************************************************************)
(* flaskr: session-authenticated CRUD workflow.                            *)
(*                                                                         *)
(* State: the two tables of the store (user, post), the store's id         *)
(* counter and clock, the client's signed session cookie, and the last     *)
(* request/response pair.  One action per route; an action is the whole    *)
(* request: before_app_request hook, guard, view, template rendering.      *)
(* SpecReq and SpecConc run the same requests statement by statement, with *)
(* the application context g and the store connections of each client.     *)
(***************************************************************************)
EXTENDS Integers, Sequences, FiniteSets, TLC

(* ---------------------------------------------------------------- bounds *)

\* Number of INSERTs into post over a run (caps the store's id counter).
MaxPosts == 2

(* ------------------------------------------------------------ input sets *)

Methods   == {"GET", "POST"}

\* Post ids a client may put in a URL: every id the store can hand out, and
\* one more that it never hands out.
UrlIds == 1..(MaxPosts + 1)

\* request.form is a dict: a key may be absent (here: the form posted
\* without data), or present with an empty string.
AuthForms ==
    { [username |-> "alice", password |-> "pw1"],
      [username |-> "alice", password |-> "pw2"],
      [username |-> "bob",   password |-> "pw1"],
      [username |-> "",      password |-> "pw1"],
      [username |-> "alice", password |-> ""],
      [k \in {} |-> ""] }

PostForms ==
    { [title |-> "t", body |-> ""],
      [title |-> "u", body |-> "b"],
      [title |-> "",  body |-> "b"],
      [k \in {} |-> ""] }

\* The forms that carry both fields of the post form.
FullPostForms == {f \in PostForms : {"title", "body"} \subseteq DOMAIN f}

\* The forms that carry both fields of the auth forms.
FullAuthForms == {f \in AuthForms : {"username", "password"} \subseteq DOMAIN f}

\* A GET carries no form.
NoForm == [k \in {} |-> ""]

(* ----------------------------------------------------------------- state *)

VARIABLES
    user,        \* table user: id -> [id, username, password]
    post,        \* table post: id -> [id, author_id, created, title, body]
    nextPostId,  \* the id the store gives the next post (never reused)
    now,         \* the store's clock (CURRENT_TIMESTAMP)
    session,     \* the client's session cookie: a dict
    req,         \* the last request: [endpoint, method]
    view,        \* the view function whose body ran in the last request
    resp,        \* the last response
    proc,        \* per client: the request in flight, step by step
    conns        \* the sqlite3 connections that are open

vars == <<user, post, nextPostId, now, session, req, view, resp, proc, conns>>

\* fetchone() on an empty result; also Python's None for g.user.
NoRow == [none |-> TRUE]

\* No view function ran.
NoView == "-"

(* ------------------------------------------------- werkzeug.security *)

\* generate_password_hash: a salted one-way hash; the digest is opaque and
\* determined by salt and password.
Salts == {"s1"}

Digest(salt, password) == <<"pbkdf2", salt, password>>

generate_password_hash(password, salt) ==
    [salt |-> salt, digest |-> Digest(salt, password)]

check_password_hash(pwhash, password) ==
    pwhash.digest = Digest(pwhash.salt, password)

(* ------------------------------------------------------------ the store *)

\* username UNIQUE: the INSERT raises IntegrityError on a duplicate.
IntegrityError(users, username) ==
    \E i \in DOMAIN users : users[i].username = username

\* id INTEGER PRIMARY KEY AUTOINCREMENT on user; rows are never deleted.
NewUserId(users) == Cardinality(DOMAIN users) + 1

InsertUser(users, username, pwhash) ==
    LET i == NewUserId(users)
    IN  [k \in DOMAIN users \cup {i} |->
            IF k = i THEN [id |-> i, username |-> username, password |-> pwhash]
                     ELSE users[k]]

SelectUserByName(users, username) ==
    IF \E i \in DOMAIN users : users[i].username = username
    THEN users[CHOOSE i \in DOMAIN users : users[i].username = username]
    ELSE NoRow

SelectUserById(users, id) ==
    IF id \in DOMAIN users THEN users[id] ELSE NoRow

\* INSERT INTO post: id from the counter, created from the clock.
InsertPost(posts, id, created, title, body, author_id) ==
    [k \in DOMAIN posts \cup {id} |->
        IF k = id THEN [id |-> id, author_id |-> author_id, created |-> created,
                        title |-> title, body |-> body]
                  ELSE posts[k]]

\* Faulty UPDATE: the WHERE clause is missing, every row is overwritten.
UpdatePost_every_row(posts, id, title, body) ==
    [k \in DOMAIN posts |-> [posts[k] EXCEPT !.title = title, !.body = body]]

\* UPDATE post SET title = ?, body = ? WHERE id = ?
UpdatePost(posts, id, title, body) ==
    [k \in DOMAIN posts |->
        IF k = id THEN [posts[k] EXCEPT !.title = title, !.body = body]
                  ELSE posts[k]]

\* Faulty DELETE: the WHERE clause is missing, every row is removed.
DeletePost_every_row(posts, id) == [k \in {} |-> posts[k]]

\* DELETE FROM post WHERE id = ?
DeletePost(posts, id) == [k \in DOMAIN posts \ {id} |-> posts[k]]

\* SELECT ... FROM post p JOIN user u ON p.author_id = u.id WHERE p.id = ?
SelectPostJoined(posts, users, id) ==
    IF id \in DOMAIN posts /\ posts[id].author_id \in DOMAIN users
    THEN [id |-> id, title |-> posts[id].title, body |-> posts[id].body,
          created |-> posts[id].created, author_id |-> posts[id].author_id,
          username |-> users[posts[id].author_id].username]
    ELSE NoRow

(* ---------------------------------------------------- flask primitives *)

\* Python's None for the local variable error.
NoError == "<None>"

EmptySession == [k \in {} |-> 0]

\* session.clear()
session_clear(sess) == EmptySession

\* session[key] = value
session_set(sess, key, value) ==
    [k \in DOMAIN sess \cup {key} |-> IF k = key THEN value ELSE sess[k]]

\* flash(message): appended to session['_flashes'].
flash(sess, message) ==
    session_set(sess, "_flashes",
        Append(IF "_flashes" \in DOMAIN sess THEN sess["_flashes"] ELSE <<>>,
               message))

\* get_flashed_messages(), called by the base template of every rendered
\* page: returns the pending messages and removes them from the session.
get_flashed_messages(sess) ==
    IF "_flashes" \in DOMAIN sess THEN sess["_flashes"] ELSE <<>>

pop_flashes(sess) == [k \in DOMAIN sess \ {"_flashes"} |-> sess[k]]

\* url_for(endpoint)
url_for(endpoint) ==
    CASE endpoint = "auth.login"    -> "/auth/login"
      [] endpoint = "auth.register" -> "/auth/register"
      [] endpoint = "index"         -> "/"
      [] endpoint = "blog.index"    -> "/"

\* Faulty redirect: See Other instead of the default code.
redirect_see_other(location) ==
    [status |-> 303, location |-> location, template |-> "", flashed |-> <<>>,
     posts |-> <<>>]

\* redirect(location): werkzeug's default code.
redirect(location) ==
    [status |-> 302, location |-> location, template |-> "", flashed |-> <<>>,
     posts |-> <<>>]

\* abort(code), and the error responses the framework raises itself
\* (400 for a missing form key, 405 for a method the route does not list).
abort(code) ==
    [status |-> code, location |-> "", template |-> "", flashed |-> <<>>,
     posts |-> <<>>]

\* The outcome of a view: the response and the world it leaves.  A world is
\* [user, post, nextPostId, now, session].
Out(w, response) == [w |-> w, resp |-> response]

\* render_template(name, posts=...): 200, the page shows the rows it is
\* given and the pending flashed messages, and consumes the messages.
render_template(w, name, posts) ==
    Out([w EXCEPT !.session = pop_flashes(w.session)],
        [status |-> 200, location |-> "", template |-> name,
         flashed |-> get_flashed_messages(w.session), posts |-> posts])

(* ------------------------------------------------------------- auth.py *)

AlreadyRegistered(username) ==
    CASE username = "alice" -> "User alice is already registered."
      [] username = "bob"   -> "User bob is already registered."
      [] OTHER              -> "User  is already registered."

\* Faulty register: the INSERT replaces the row of a taken username instead
\* of failing.
register_or_replace(w, method, form, salt) ==
    IF method = "POST"
    THEN IF ~({"username", "password"} \subseteq DOMAIN form)
         THEN Out(w, abort(400))
         ELSE LET username == form["username"]
                  password == form["password"]
                  error == IF username = "" THEN "Username is required."
                           ELSE IF password = "" THEN "Password is required."
                           ELSE NoError
                  pwhash == generate_password_hash(password, salt)
              IN  IF error = NoError
                  THEN IF IntegrityError(w.user, username)
                       THEN Out([w EXCEPT !.user =
                                    [i \in DOMAIN w.user |->
                                        IF w.user[i].username = username
                                        THEN [w.user[i] EXCEPT !.password = pwhash]
                                        ELSE w.user[i]]],
                                redirect(url_for("auth.login")))
                       ELSE Out([w EXCEPT !.user =
                                    InsertUser(w.user, username, pwhash)],
                                redirect(url_for("auth.login")))
                  ELSE render_template(
                           [w EXCEPT !.session = flash(w.session, error)],
                           "auth/register.html", <<>>)
    ELSE render_template(w, "auth/register.html", <<>>)

\* Faulty register: a successful registration also logs the new user in.
register_and_login(w, method, form, salt) ==
    IF method = "POST"
    THEN IF ~({"username", "password"} \subseteq DOMAIN form)
         THEN Out(w, abort(400))
         ELSE LET username == form["username"]
                  password == form["password"]
                  error == IF username = "" THEN "Username is required."
                           ELSE IF password = "" THEN "Password is required."
                           ELSE NoError
              IN  IF error = NoError
                  THEN IF IntegrityError(w.user, username)
                       THEN render_template(
                                [w EXCEPT !.session =
                                    flash(w.session, AlreadyRegistered(username))],
                                "auth/register.html", <<>>)
                       ELSE Out([w EXCEPT
                                    !.user = InsertUser(w.user, username,
                                        generate_password_hash(password, salt)),
                                    !.session = session_set(
                                        session_clear(w.session), "user_id",
                                        NewUserId(w.user))],
                                redirect(url_for("auth.login")))
                  ELSE render_template(
                           [w EXCEPT !.session = flash(w.session, error)],
                           "auth/register.html", <<>>)
    ELSE render_template(w, "auth/register.html", <<>>)

\* register(): the view of /auth/register.
register(w, method, form, salt) ==
    IF method = "POST"
    THEN IF ~({"username", "password"} \subseteq DOMAIN form)
         THEN Out(w, abort(400))
         ELSE LET username == form["username"]
                  password == form["password"]
                  error == IF username = "" THEN "Username is required."
                           ELSE IF password = "" THEN "Password is required."
                           ELSE NoError
              IN  IF error = NoError
                  THEN IF IntegrityError(w.user, username)
                       THEN render_template(
                                [w EXCEPT !.session =
                                    flash(w.session, AlreadyRegistered(username))],
                                "auth/register.html", <<>>)
                       ELSE Out([w EXCEPT !.user =
                                    InsertUser(w.user, username,
                                        generate_password_hash(password, salt))],
                                redirect(url_for("auth.login")))
                  ELSE render_template(
                           [w EXCEPT !.session = flash(w.session, error)],
                           "auth/register.html", <<>>)
    ELSE render_template(w, "auth/register.html", <<>>)

\* Faulty login: the user's id is stored in the session as soon as the
\* username is found, before the password is checked.
login_session_first(w, method, form) ==
    IF method = "POST"
    THEN IF ~({"username", "password"} \subseteq DOMAIN form)
         THEN Out(w, abort(400))
         ELSE LET username == form["username"]
                  password == form["password"]
                  row == SelectUserByName(w.user, username)
                  error == IF row = NoRow THEN "Incorrect username."
                           ELSE IF ~check_password_hash(row.password, password)
                                THEN "Incorrect password."
                           ELSE NoError
                  sess == IF row = NoRow THEN w.session
                          ELSE session_set(session_clear(w.session),
                                           "user_id", row.id)
              IN  IF error = NoError
                  THEN Out([w EXCEPT !.session = sess],
                           redirect(url_for("index")))
                  ELSE render_template(
                           [w EXCEPT !.session = flash(sess, error)],
                           "auth/login.html", <<>>)
    ELSE render_template(w, "auth/login.html", <<>>)

\* Faulty login: the password is not checked.
login_any_password(w, method, form) ==
    IF method = "POST"
    THEN IF ~({"username", "password"} \subseteq DOMAIN form)
         THEN Out(w, abort(400))
         ELSE LET username == form["username"]
                  row == SelectUserByName(w.user, username)
                  error == IF row = NoRow THEN "Incorrect username."
                           ELSE NoError
              IN  IF error = NoError
                  THEN Out([w EXCEPT !.session =
                               session_set(session_clear(w.session),
                                           "user_id", row.id)],
                           redirect(url_for("index")))
                  ELSE render_template(
                           [w EXCEPT !.session = flash(w.session, error)],
                           "auth/login.html", <<>>)
    ELSE render_template(w, "auth/login.html", <<>>)

\* login(): the view of /auth/login.
login(w, method, form) ==
    IF method = "POST"
    THEN IF ~({"username", "password"} \subseteq DOMAIN form)
         THEN Out(w, abort(400))
         ELSE LET username == form["username"]
                  password == form["password"]
                  row == SelectUserByName(w.user, username)
                  error == IF row = NoRow THEN "Incorrect username."
                           ELSE IF ~check_password_hash(row.password, password)
                                THEN "Incorrect password."
                           ELSE NoError
              IN  IF error = NoError
                  THEN Out([w EXCEPT !.session =
                               session_set(session_clear(w.session),
                                           "user_id", row.id)],
                           redirect(url_for("index")))
                  ELSE render_template(
                           [w EXCEPT !.session = flash(w.session, error)],
                           "auth/login.html", <<>>)
    ELSE render_template(w, "auth/login.html", <<>>)

\* Faulty load_logged_in_user: the SELECT has no WHERE id = ?, so fetchone()
\* returns the first user row whoever the session names.
load_logged_in_user_first_row(sess, users) ==
    IF "user_id" \notin DOMAIN sess \/ DOMAIN users = {}
    THEN NoRow
    ELSE users[CHOOSE id \in DOMAIN users : \A k \in DOMAIN users : id <= k]

\* load_logged_in_user(): before_app_request; the value of g.user.
load_logged_in_user(sess, users) ==
    IF "user_id" \notin DOMAIN sess
    THEN NoRow
    ELSE SelectUserById(users, sess["user_id"])

\* Faulty logout: the session is not cleared.
logout_keep_session(w) == Out(w, redirect(url_for("index")))

\* logout(): the view of /auth/logout.
logout(w) ==
    Out([w EXCEPT !.session = session_clear(w.session)],
        redirect(url_for("index")))

\* login_required: TRUE when the wrapped view is invoked, FALSE when the
\* guard answers with the redirect to the login page.
login_required(g_user) == g_user # NoRow

(* ------------------------------------------------------------- blog.py *)

\* Faulty ORDER BY: ascending.
RECURSIVE OrderByCreatedAsc(_, _, _)
OrderByCreatedAsc(posts, users, ids) ==
    IF ids = {}
    THEN <<>>
    ELSE LET first == CHOOSE i \in ids :
                        \A j \in ids :
                            \/ posts[i].created < posts[j].created
                            \/ posts[i].created = posts[j].created /\ i <= j
         IN  <<SelectPostJoined(posts, users, first)>>
                 \o OrderByCreatedAsc(posts, users, ids \ {first})

\* ORDER BY created DESC over the join of post and user; rows with equal
\* created come in rowid order.
RECURSIVE OrderByCreatedDesc(_, _, _)
OrderByCreatedDesc(posts, users, ids) ==
    IF ids = {}
    THEN <<>>
    ELSE LET first == CHOOSE i \in ids :
                        \A j \in ids :
                            \/ posts[i].created > posts[j].created
                            \/ posts[i].created = posts[j].created /\ i <= j
         IN  <<SelectPostJoined(posts, users, first)>>
                 \o OrderByCreatedDesc(posts, users, ids \ {first})

\* index(): the view of /.
index(w) ==
    render_template(w, "blog/index.html",
        OrderByCreatedDesc(w.post, w.user,
            {i \in DOMAIN w.post : w.post[i].author_id \in DOMAIN w.user}))

\* Faulty create: title and body are bound to the INSERT in the wrong order.
create_swapped(w, g_user, method, form, created) ==
    IF method = "POST"
    THEN IF ~({"title", "body"} \subseteq DOMAIN form)
         THEN Out(w, abort(400))
         ELSE LET title == form["title"]
                  body  == form["body"]
              IN  IF title = ""
                  THEN render_template(w, "blog/create.html", <<>>)
                  ELSE Out([w EXCEPT
                               !.post = InsertPost(w.post, w.nextPostId, created,
                                                   body, title, g_user.id),
                               !.nextPostId = w.nextPostId + 1,
                               !.now = created],
                           redirect(url_for("blog.index")))
    ELSE render_template(w, "blog/create.html", <<>>)

\* create(): the view of /create, behind login_required.  created is the
\* store's CURRENT_TIMESTAMP at the INSERT.
create(w, g_user, method, form, created) ==
    IF method = "POST"
    THEN IF ~({"title", "body"} \subseteq DOMAIN form)
         THEN Out(w, abort(400))
         ELSE LET title == form["title"]
                  body  == form["body"]
                  error == IF title = "" THEN "Title is required." ELSE NoError
              IN  IF title = ""
                  THEN \* error is assigned and never flashed
                       render_template(w, "blog/create.html", <<>>)
                  ELSE Out([w EXCEPT
                               !.post = InsertPost(w.post, w.nextPostId, created,
                                                   title, body, g_user.id),
                               !.nextPostId = w.nextPostId + 1,
                               !.now = created],
                           redirect(url_for("blog.index")))
    ELSE render_template(w, "blog/create.html", <<>>)

\* Faulty get_post: the ownership check is left out.
get_post_any_author(w, g_user, id, check_author) ==
    LET row == SelectPostJoined(w.post, w.user, id)
    IN  IF row = NoRow
        THEN [abort |-> 404, row |-> NoRow]
        ELSE [abort |-> 0, row |-> row]

\* Faulty get_post: a missing row is reported as 403, as if the ownership
\* check had failed.
get_post_forbidden_when_missing(w, g_user, id, check_author) ==
    LET row == SelectPostJoined(w.post, w.user, id)
    IN  IF row = NoRow \/ (check_author /\ row.author_id # g_user.id)
        THEN [abort |-> 403, row |-> NoRow]
        ELSE [abort |-> 0, row |-> row]

\* get_post(id, check_author): abort is the status get_post aborts with, or
\* 0 when it returns the row.
get_post(w, g_user, id, check_author) ==
    LET row == SelectPostJoined(w.post, w.user, id)
    IN  IF row = NoRow
        THEN [abort |-> 404, row |-> NoRow]
        ELSE IF check_author /\ row.author_id # g_user.id
             THEN [abort |-> 403, row |-> NoRow]
             ELSE [abort |-> 0, row |-> row]

\* Faulty update: the error is assigned and never flashed.
update_without_flash(w, g_user, id, method, form) ==
    LET got == get_post(w, g_user, id, TRUE)
    IN  IF got.abort # 0
        THEN Out(w, abort(got.abort))
        ELSE IF method = "POST"
             THEN IF ~({"title", "body"} \subseteq DOMAIN form)
                  THEN Out(w, abort(400))
                  ELSE LET title == form["title"]
                           body  == form["body"]
                       IN  IF title = ""
                           THEN render_template(w, "blog/update.html",
                                                <<got.row>>)
                           ELSE Out([w EXCEPT !.post =
                                        UpdatePost(w.post, id, title, body)],
                                    redirect(url_for("blog.index")))
             ELSE render_template(w, "blog/update.html", <<got.row>>)

\* update(id): the view of /<id>/update, behind login_required.
update(w, g_user, id, method, form) ==
    LET got == get_post(w, g_user, id, TRUE)
    IN  IF got.abort # 0
        THEN Out(w, abort(got.abort))
        ELSE IF method = "POST"
             THEN IF ~({"title", "body"} \subseteq DOMAIN form)
                  THEN Out(w, abort(400))
                  ELSE LET title == form["title"]
                           body  == form["body"]
                           error == IF title = "" THEN "Title is required."
                                    ELSE NoError
                       IN  IF error # NoError
                           THEN render_template(
                                    [w EXCEPT !.session = flash(w.session, error)],
                                    "blog/update.html", <<got.row>>)
                           ELSE Out([w EXCEPT !.post =
                                        UpdatePost(w.post, id, title, body)],
                                    redirect(url_for("blog.index")))
             ELSE render_template(w, "blog/update.html", <<got.row>>)

\* delete(id): the view of /<id>/delete, behind login_required.
delete(w, g_user, id) ==
    LET got == get_post(w, g_user, id, TRUE)
    IN  IF got.abort # 0
        THEN Out(w, abort(got.abort))
        ELSE Out([w EXCEPT !.post = DeletePost(w.post, id)],
                 redirect(url_for("blog.index")))

(* ------------------------------------------------------------------ db.py *)

\* g: the request's application context, a dict that starts empty.
EmptyG == [k \in {} |-> NoRow]

\* sqlite3.connect(): a connection object distinct from every open one.
NewConn(open) == CHOOSE h \in 1..(Cardinality(open) + 1) : h \notin open

\* Faulty get_db: connects on every call and forgets the earlier connection.
get_db_always_connect(g, open) ==
    LET h == NewConn(open)
    IN  [g |-> [k \in DOMAIN g \cup {"db"} |-> IF k = "db" THEN h ELSE g[k]],
         open |-> open \cup {h},
         connects |-> 1]

\* get_db(): g.db, connected on the first call of the request.
get_db(g, open) ==
    IF "db" \notin DOMAIN g
    THEN LET h == NewConn(open)
         IN  [g |-> [k \in DOMAIN g \cup {"db"} |-> IF k = "db" THEN h ELSE g[k]],
              open |-> open \cup {h},
              connects |-> 1]
    ELSE [g |-> g, open |-> open, connects |-> 0]

\* Faulty close_db: closes only when the request ended without an error.
close_db_unless_error(g, open, e) ==
    IF "db" \in DOMAIN g /\ e = 0
    THEN [g |-> [k \in DOMAIN g \ {"db"} |-> g[k]], open |-> open \ {g["db"]}]
    ELSE [g |-> [k \in DOMAIN g \ {"db"} |-> g[k]], open |-> open]

\* close_db(e): pops g.db and closes it if there was one; e is ignored.
close_db(g, open, e) ==
    IF "db" \in DOMAIN g
    THEN [g |-> [k \in DOMAIN g \ {"db"} |-> g[k]], open |-> open \ {g["db"]}]
    ELSE [g |-> g, open |-> open]

(* ------------------------------------------------------------ requests *)

\* The methods each route accepts.
RouteMethods(endpoint) ==
    CASE endpoint = "auth.register" -> {"GET", "POST"}
      [] endpoint = "auth.login"    -> {"GET", "POST"}
      [] endpoint = "auth.logout"   -> {"GET"}
      [] endpoint = "blog.index"    -> {"GET"}
      [] endpoint = "blog.create"   -> {"GET", "POST"}
      [] endpoint = "blog.update"   -> {"GET", "POST"}
      [] endpoint = "blog.delete"   -> {"POST"}

World ==
    [user |-> user, post |-> post, nextPostId |-> nextPostId, now |-> now,
     session |-> session]

\* The response is sent and the session cookie and the committed rows stay.
Respond(out, endpoint, method, ran) ==
    /\ req' = [endpoint |-> endpoint, method |-> method]
    /\ view' = ran
    /\ out.w.nextPostId <= MaxPosts + 1
    /\ user' = out.w.user
    /\ post' = out.w.post
    /\ nextPostId' = out.w.nextPostId
    /\ now' = out.w.now
    /\ session' = out.w.session
    /\ resp' = out.resp
    /\ UNCHANGED <<proc, conns>>

\* The form a request of this method carries.
FormsOf(method, forms) == IF method = "POST" THEN forms ELSE {NoForm}

Register(method, form, salt) ==
    Respond(register(World, method, form, salt),
            "auth.register", method, "register")

Login(method, form) ==
    Respond(login(World, method, form), "auth.login", method, "login")

Logout(method) ==
    IF method \in RouteMethods("auth.logout")
    THEN Respond(logout(World), "auth.logout", method, "logout")
    ELSE Respond(Out(World, abort(405)), "auth.logout", method, NoView)

Index(method) ==
    IF method \in RouteMethods("blog.index")
    THEN Respond(index(World), "blog.index", method, "index")
    ELSE Respond(Out(World, abort(405)), "blog.index", method, NoView)

Create(method, form, created) ==
    LET g_user == load_logged_in_user(session, user)
    IN  IF login_required(g_user)
        THEN Respond(create(World, g_user, method, form, created),
                     "blog.create", method, "create")
        ELSE Respond(Out(World, redirect(url_for("auth.login"))),
                     "blog.create", method, NoView)

Update(id, method, form) ==
    LET g_user == load_logged_in_user(session, user)
    IN  IF login_required(g_user)
        THEN Respond(update(World, g_user, id, method, form),
                     "blog.update", method, "update")
        ELSE Respond(Out(World, redirect(url_for("auth.login"))),
                     "blog.update", method, NoView)

\* Faulty delete route: the existence check runs before the guard.
Delete_exists_before_guard(id, method) ==
    LET g_user == load_logged_in_user(session, user)
    IN  IF method \notin RouteMethods("blog.delete")
        THEN Respond(Out(World, abort(405)), "blog.delete", method, NoView)
        ELSE IF SelectPostJoined(post, user, id) = NoRow
             THEN Respond(Out(World, abort(404)), "blog.delete", method, "delete")
             ELSE IF login_required(g_user)
                  THEN Respond(delete(World, g_user, id),
                               "blog.delete", method, "delete")
                  ELSE Respond(Out(World, redirect(url_for("auth.login"))),
                               "blog.delete", method, NoView)

Delete(id, method) ==
    LET g_user == load_logged_in_user(session, user)
    IN  IF method \notin RouteMethods("blog.delete")
        THEN Respond(Out(World, abort(405)), "blog.delete", method, NoView)
        ELSE IF login_required(g_user)
             THEN Respond(delete(World, g_user, id),
                          "blog.delete", method, "delete")
             ELSE Respond(Out(World, redirect(url_for("auth.login"))),
                          "blog.delete", method, NoView)

EmptyTable == [k \in {} |-> NoRow]

NoResponse == abort(0)

\* The clients whose requests the server handles, each in a context of its own.
Clients == {"c1", "c2"}

NoRq == [endpoint |-> "", method |-> "", id |-> 0, form |-> NoForm]

\* A client between two requests: it holds its session cookie, nothing else.
IdleProc(cookie) ==
    [pc |-> "idle", rq |-> NoRq, session |-> cookie, g |-> EmptyG,
     resp |-> NoResponse, ran |-> NoView, connects |-> 0, rowcount |-> -1,
     e |-> 0]


Init ==
    /\ user = EmptyTable
    /\ post = EmptyTable
    /\ nextPostId = 1
    /\ now = 0
    /\ session = EmptySession
    /\ req = [endpoint |-> "", method |-> ""]
    /\ view = NoView
    /\ resp = NoResponse
    /\ proc = [c \in Clients |-> IdleProc(EmptySession)]
    /\ conns = {}

Next ==
    \/ \E method \in Methods, salt \in Salts :
          \E form \in FormsOf(method, AuthForms) : Register(method, form, salt)
    \/ \E method \in Methods :
          \E form \in FormsOf(method, AuthForms) : Login(method, form)
    \/ \E method \in Methods : Logout(method)
    \/ \E method \in Methods : Index(method)
    \/ \E method \in Methods :
          \E form \in FormsOf(method, PostForms) : Create(method, form, now + 1)
    \/ \E id \in UrlIds, method \in Methods :
          \E form \in FormsOf(method, PostForms) : Update(id, method, form)
    \/ \E id \in UrlIds, method \in Methods : Delete(id, method)

Spec == Init /\ [][Next]_vars

\* The requests with a clock that may stand still between two INSERTs
\* (CURRENT_TIMESTAMP has a resolution of one second), so that posts can
\* share their created value.  The forms are the well-formed ones: what a
\* listing shows depends on the rows written, not on the rejected requests.
TiesAuthForms == {f \in FullAuthForms : f["username"] # "" /\ f["password"] = "pw1"}

TiesPostForms == {f \in FullPostForms : f["title"] # ""}

NextTies ==
    \/ \E method \in Methods, salt \in Salts :
          \E form \in FormsOf(method, TiesAuthForms) :
              Register(method, form, salt)
    \/ \E method \in Methods :
          \E form \in FormsOf(method, TiesAuthForms) : Login(method, form)
    \/ \E method \in Methods : Logout(method)
    \/ \E method \in Methods : Index(method)
    \/ \E method \in Methods, created \in {now, now + 1} :
          \E form \in FormsOf(method, TiesPostForms) :
              Create(method, form, created)
    \/ \E id \in UrlIds, method \in Methods :
          \E form \in FormsOf(method, TiesPostForms) : Update(id, method, form)
    \/ \E id \in UrlIds, method \in Methods : Delete(id, method)

SpecTies == Init /\ [][NextTies]_vars

(* ------------------------------------------- requests, step by step *)

\* A request is handled in steps: the application context is pushed, the
\* before_app_request hook runs, then the guard and the view, and at the end
\* the context is torn down.  update and delete run two statements, the
\* SELECT of get_post and then the UPDATE or DELETE: each statement is a
\* step, and the requests of other clients may run in between.

Rq(endpoint, method, id, form) ==
    [endpoint |-> endpoint, method |-> method, id |-> id, form |-> form]

Requests(authForms, postForms, ids) ==
    UNION {
        {Rq(e, m, 0, f) : e \in {"auth.register", "auth.login"},
                          f \in FormsOf(m, authForms)}
        \cup {Rq(e, m, 0, NoForm) : e \in {"auth.logout", "blog.index"}}
        \cup {Rq("blog.create", m, 0, f) : f \in FormsOf(m, postForms)}
        \cup {Rq("blog.update", m, id, f) : id \in ids,
                                            f \in FormsOf(m, postForms)}
        \cup {Rq("blog.delete", m, id, NoForm) : id \in ids}
        : m \in Methods}

\* The world a client's request sees: the committed rows and its own session.
WorldOf(c) ==
    [user |-> user, post |-> post, nextPostId |-> nextPostId, now |-> now,
     session |-> proc[c].session]

Guarded(endpoint) == endpoint \in {"blog.create", "blog.update", "blog.delete"}

ViewName(endpoint) ==
    CASE endpoint = "auth.register" -> "register"
      [] endpoint = "auth.login"    -> "login"
      [] endpoint = "auth.logout"   -> "logout"
      [] endpoint = "blog.index"    -> "index"
      [] endpoint = "blog.create"   -> "create"
      [] endpoint = "blog.update"   -> "update"
      [] endpoint = "blog.delete"   -> "delete"

\* Whether the view body gets to a get_db() call.
ViewCallsDb(rq) ==
    CASE rq.endpoint \in {"auth.register", "auth.login"} ->
             rq.method = "POST" /\ {"username", "password"} \subseteq DOMAIN rq.form
      [] rq.endpoint = "auth.logout" -> FALSE
      [] rq.endpoint = "blog.index"  -> TRUE
      [] rq.endpoint = "blog.create" ->
             /\ rq.method = "POST"
             /\ {"title", "body"} \subseteq DOMAIN rq.form
             /\ rq.form["title"] # ""
      [] rq.endpoint \in {"blog.update", "blog.delete"} -> TRUE

\* What the view body does on the rows as they are now.
ViewOut(c, g_user, salt) ==
    LET rq == proc[c].rq
        w  == WorldOf(c)
    IN  CASE rq.endpoint = "auth.register" ->
                 register(w, rq.method, rq.form, salt)
          [] rq.endpoint = "auth.login"  -> login(w, rq.method, rq.form)
          [] rq.endpoint = "auth.logout" -> logout(w)
          [] rq.endpoint = "blog.index"  -> index(w)
          [] rq.endpoint = "blog.create" ->
                 create(w, g_user, rq.method, rq.form, now + 1)
          [] rq.endpoint = "blog.update" ->
                 update(w, g_user, rq.id, rq.method, rq.form)
          [] rq.endpoint = "blog.delete" -> delete(w, g_user, rq.id)

NoDb(c) == [g |-> proc[c].g, open |-> conns, connects |-> 0]

\* The response is made; the rows written are committed, the session is
\* saved and the context is left to be torn down.
Answer(c, out, ran, db) ==
    /\ out.w.nextPostId <= MaxPosts + 1
    /\ user' = out.w.user
    /\ post' = out.w.post
    /\ nextPostId' = out.w.nextPostId
    /\ now' = out.w.now
    /\ conns' = db.open
    /\ proc' = [proc EXCEPT ![c] =
                   [@ EXCEPT !.pc = "teardown",
                             !.session = out.w.session,
                             !.g = db.g,
                             !.connects = @ + db.connects,
                             !.resp = out.resp,
                             !.ran = ran]]
    /\ UNCHANGED <<session, req, view, resp>>

\* The application context is pushed: g is empty.
BeginRequest(c, rq) ==
    /\ proc[c].pc = "idle"
    /\ proc' = [proc EXCEPT ![c] =
                   [IdleProc(proc[c].session) EXCEPT !.pc = "before", !.rq = rq]]
    /\ UNCHANGED <<user, post, nextPostId, now, conns, session, req, view, resp>>

\* before_app_request: load_logged_in_user sets g.user.
BeforeRequest(c) ==
    /\ proc[c].pc = "before"
    /\ LET p  == proc[c]
           db == IF "user_id" \in DOMAIN p.session
                 THEN get_db(p.g, conns) ELSE NoDb(c)
           g_user == load_logged_in_user(p.session, user)
       IN  /\ conns' = db.open
           /\ proc' = [proc EXCEPT ![c] =
                          [@ EXCEPT !.pc = "view",
                                    !.g = [k \in DOMAIN db.g \cup {"user"} |->
                                              IF k = "user" THEN g_user
                                              ELSE db.g[k]],
                                    !.connects = @ + db.connects]]
    /\ UNCHANGED <<user, post, nextPostId, now, session, req, view, resp>>

\* Routing, the login_required guard and the view body up to its response
\* or, in update and delete, up to the statement that writes.
ViewStep(c, salt) ==
    /\ proc[c].pc = "view"
    /\ LET p      == proc[c]
           rq     == p.rq
           g_user == p.g["user"]
           db     == IF ViewCallsDb(rq) THEN get_db(p.g, conns) ELSE NoDb(c)
           out    == ViewOut(c, g_user, salt)
       IN  IF rq.method \notin RouteMethods(rq.endpoint)
           THEN Answer(c, Out(WorldOf(c), abort(405)), NoView, NoDb(c))
           ELSE IF Guarded(rq.endpoint) /\ ~login_required(g_user)
           THEN Answer(c, Out(WorldOf(c), redirect(url_for("auth.login"))),
                       NoView, NoDb(c))
           ELSE IF rq.endpoint \in {"blog.update", "blog.delete"}
                   /\ out.resp.location # ""
           THEN /\ conns' = db.open
                /\ proc' = [proc EXCEPT ![c] =
                               [@ EXCEPT !.pc = "write",
                                         !.g = db.g,
                                         !.connects = @ + db.connects,
                                         !.ran = ViewName(rq.endpoint)]]
                /\ UNCHANGED <<user, post, nextPostId, now,
                               session, req, view, resp>>
           ELSE Answer(c, out, ViewName(rq.endpoint), db)

\* db.execute(UPDATE ...) or db.execute(DELETE ...), db.commit() and the
\* redirect to the index; cursor.rowcount is what the statement affected.
WriteStep(c) ==
    /\ proc[c].pc = "write"
    /\ LET p  == proc[c]
           rq == p.rq
           db == get_db(p.g, conns)
           written ==
               IF rq.endpoint = "blog.update"
               THEN UpdatePost(post, rq.id, rq.form["title"], rq.form["body"])
               ELSE DeletePost(post, rq.id)
       IN  /\ post' = written
           /\ conns' = db.open
           /\ proc' = [proc EXCEPT ![c] =
                          [@ EXCEPT !.pc = "teardown",
                                    !.g = db.g,
                                    !.connects = @ + db.connects,
                                    !.rowcount = IF rq.id \in DOMAIN post
                                                 THEN 1 ELSE 0,
                                    !.resp = redirect(url_for("blog.index"))]]
    /\ UNCHANGED <<user, nextPostId, now, session, req, view, resp>>

\* A statement fails in the store (sqlite3.OperationalError): nothing is
\* written, the exception is not handled and the response is 500.
StoreError(c) ==
    /\ \/ proc[c].pc = "before" /\ "user_id" \in DOMAIN proc[c].session
       \/ /\ proc[c].pc = "view"
          /\ proc[c].rq.method \in RouteMethods(proc[c].rq.endpoint)
          /\ Guarded(proc[c].rq.endpoint) => login_required(proc[c].g["user"])
          /\ ViewCallsDb(proc[c].rq)
       \/ proc[c].pc = "write"
    /\ LET db == get_db(proc[c].g, conns)
       IN  /\ conns' = db.open
           /\ proc' = [proc EXCEPT ![c] =
                          [@ EXCEPT !.pc = "teardown",
                                    !.g = db.g,
                                    !.connects = @ + db.connects,
                                    !.resp = abort(500),
                                    !.e = 500]]
    /\ UNCHANGED <<user, post, nextPostId, now, session, req, view, resp>>

\* teardown_appcontext: close_db(e) runs, the context is popped and the
\* client is left with the response and its session cookie.
Teardown(c) ==
    /\ proc[c].pc = "teardown"
    /\ conns' = close_db(proc[c].g, conns, proc[c].e).open
    /\ proc' = [proc EXCEPT ![c] = IdleProc(proc[c].session)]
    /\ UNCHANGED <<user, post, nextPostId, now, session, req, view, resp>>

\* One client, every route, and statements that may fail.
ReqClient == "c1"

NextReq ==
    \/ \E rq \in Requests(AuthForms, PostForms, UrlIds) :
          BeginRequest(ReqClient, rq)
    \/ BeforeRequest(ReqClient)
    \/ \E salt \in Salts : ViewStep(ReqClient, salt)
    \/ WriteStep(ReqClient)
    \/ StoreError(ReqClient)
    \/ Teardown(ReqClient)

SpecReq == Init /\ [][NextReq]_vars

\* Two clients whose requests interleave step by step, each on a connection
\* of its own.  A statement and its commit are one step: a writer holds
\* SQLite's write lock from its statement to its commit, and the statement of
\* another connection waits for it.
\* The run starts after alice registered, logged in on the first client and
\* wrote one post; the second client has no session yet.
Alice == [username |-> "alice", password |-> "pw1"]

Bob == [username |-> "bob", password |-> "pw1"]

ConcStart ==
    LET w0 == [user |-> EmptyTable, post |-> EmptyTable, nextPostId |-> 1,
               now |-> 0, session |-> EmptySession]
        w1 == register(w0, "POST", Alice, "s1").w
        w2 == login(w1, "POST", Alice).w
    IN  create(w2, load_logged_in_user(w2.session, w2.user), "POST",
               [title |-> "t", body |-> ""], 1).w

InitConc ==
    /\ user = ConcStart.user
    /\ post = ConcStart.post
    /\ nextPostId = ConcStart.nextPostId
    /\ now = ConcStart.now
    /\ session = EmptySession
    /\ req = [endpoint |-> "", method |-> ""]
    /\ view = NoView
    /\ resp = NoResponse
    /\ proc = [c \in Clients |->
                  IdleProc(IF c = "c1" THEN ConcStart.session ELSE EmptySession)]
    /\ conns = {}

\* The requests that write, well-formed, on the post ids the store hands out.
ConcRequests ==
    {rq \in Requests({Alice, Bob}, {[title |-> "u", body |-> "b"]}, 1..MaxPosts) :
        /\ rq.method = "POST"
        /\ rq.endpoint \notin {"auth.logout", "blog.index"}}

NextConc ==
    \E c \in Clients :
        \/ \E rq \in ConcRequests : BeginRequest(c, rq)
        \/ BeforeRequest(c)
        \/ \E salt \in Salts : ViewStep(c, salt)
        \/ WriteStep(c)
        \/ Teardown(c)

SpecConc == InitConc /\ [][NextConc]_vars

(* ---------------------------------------------------------------------- *)
(* Properties.                                                            *)
(* ---------------------------------------------------------------------- *)

\* g.user as the before_app_request hook resolves it for the next request.
CurrentUser == load_logged_in_user(session, user)

Range(seq) == {seq[i] : i \in 1..Len(seq)}

\* A step that is an update request (any method the route accepts) or a
\* delete request (POST) for post id.  (The endpoint of the step is looked
\* at first: it tells most steps apart without running the views.)
UpdateOrDelete(id) ==
    /\ req'.endpoint \in {"blog.update", "blog.delete"}
    /\ \/ \E method \in Methods :
             \E form \in FormsOf(method, PostForms) : Update(id, method, form)
       \/ Delete(id, "POST")

\* The condition C1 puts on every step (stated in full below).
C1_Step ==
    \A id \in DOMAIN post :
        (CurrentUser # NoRow /\ UpdateOrDelete(id)) =>
            IF post[id].author_id # CurrentUser.id
            THEN /\ resp' = abort(403)
                 /\ post' = post
                 /\ user' = user
            ELSE /\ resp'.status \in {200, 302, 400}
                 /\ view' \in {"update", "delete"}

\* C1: a logged-in user who is not the author of an existing post gets 403
\* for update and delete of it and no row of either table changes; the
\* author passes the ownership check: the view body answers (the form, the
\* redirect after the write, or 400 for a form without its fields), never
\* 403 or 404.
C1_AuthorRequired == [][C1_Step]_vars

\* C1 witness: a delete of an existing post was answered 403.
C1_Witness ==
    /\ req.endpoint = "blog.delete"
    /\ resp.status = 403
    /\ post # EmptyTable

\* The condition C2 puts on every step (stated in full below).
C2_Step ==
    (/\ CurrentUser = NoRow
     /\ \/ \E method \in Methods :
              \E form \in FormsOf(method, PostForms) :
                  Create(method, form, now + 1)
        \/ \E id \in UrlIds : UpdateOrDelete(id))
    => /\ resp'.location = "/auth/login"
       /\ resp'.status \in 300..399
       /\ view' = NoView
       /\ post' = post
       /\ user' = user

\* C2: a create, update or delete request (a method the route accepts) from
\* a client whose current user resolves to none is answered with the
\* redirect to the login page, no view body runs and no row changes,
\* whatever the target id.
C2_LoginRequired == [][C2_Step]_vars

\* C2 witness: an anonymous delete was redirected to login while posts
\* exist.
C2_Witness ==
    /\ req.endpoint = "blog.delete"
    /\ resp.location = "/auth/login"
    /\ view = NoView
    /\ post # EmptyTable

\* The condition C3 puts on every step (stated in full below).
C3_Step ==
    \A id \in UrlIds \ DOMAIN post :
        (CurrentUser # NoRow /\ UpdateOrDelete(id)) =>
            /\ resp' = abort(404)
            /\ post' = post
            /\ user' = user

\* C3: a logged-in user's update (GET or POST) or delete (POST) of an id
\* that is not in the post table is answered 404 and changes no row.
C3_ExistsRequired == [][C3_Step]_vars

\* C3 witness: a logged-in update was answered 404.
C3_Witness ==
    /\ req.endpoint = "blog.update"
    /\ resp.status = 404
    /\ CurrentUser # NoRow

\* The condition C4 puts on every step (stated in full below).
C4_Step ==
    \A form \in FullPostForms :
        (/\ CurrentUser # NoRow
         /\ form["title"] = ""
         /\ Create("POST", form, now + 1))
        => /\ post' = post
           /\ resp'.status = 200
           /\ resp'.template = "blog/create.html"
           /\ "Title is required." \in Range(resp'.flashed)

\* C4: a logged-in user's POST to /create with an empty title inserts no
\* row and the create form comes back showing 'Title is required.'.
C4_CreateValidate == [][C4_Step]_vars

\* The condition C5 puts on every step (stated in full below).
C5_Step ==
    \A id \in DOMAIN post, form \in FullPostForms :
        (/\ CurrentUser # NoRow
         /\ post[id].author_id = CurrentUser.id
         /\ form["title"] = ""
         /\ Update(id, "POST", form))
        => /\ post' = post
           /\ user' = user
           /\ resp'.status = 200
           /\ resp'.template = "blog/update.html"
           /\ resp'.flashed = <<"Title is required.">>

\* C5: the author's POST to /<id>/update with an empty title writes nothing
\* (no row of either table changes) and the update form comes back showing
\* 'Title is required.'.
C5_UpdateValidate == [][C5_Step]_vars

\* C5 witness: an update POST came back as the form with the message.
C5_Witness ==
    /\ req = [endpoint |-> "blog.update", method |-> "POST"]
    /\ resp.template = "blog/update.html"
    /\ resp.flashed = <<"Title is required.">>

\* The condition C6 puts on every step (stated in full below).
C6_Step ==
    \A form \in FullAuthForms, salt \in Salts :
        (/\ form["username"] # ""
         /\ form["password"] # ""
         /\ \E i \in DOMAIN user : user[i].username = form["username"]
         /\ Register("POST", form, salt))
        => /\ user' = user
           /\ resp'.status = 200
           /\ resp'.template = "auth/register.html"
           /\ resp'.location = ""
           /\ resp'.flashed = <<AlreadyRegistered(form["username"])>>

\* C6: a registration POST with non-empty username and password whose
\* username is already in the user table comes back as the form with the
\* already-registered message (no redirect) and the user table is the same:
\* no row added, no password hash changed.
C6_DuplicateUsername == [][C6_Step]_vars

\* C6 witness: alice is registered with pw1 and a registration of alice
\* came back with the already-registered message.
C6_Witness ==
    /\ req = [endpoint |-> "auth.register", method |-> "POST"]
    /\ resp.flashed = <<"User alice is already registered.">>
    /\ \E i \in DOMAIN user :
          /\ user[i].username = "alice"
          /\ check_password_hash(user[i].password, "pw1")

\* A login POST with the name of a user and a password that does not verify
\* against that user's hash.
BadPasswordLogin(form) ==
    /\ \E i \in DOMAIN user :
          /\ user[i].username = form["username"]
          /\ ~check_password_hash(user[i].password, form["password"])
    /\ Login("POST", form)

\* The condition C7 puts on every step as the claim states it (stated in full below).
C7_Original_Step ==
    \A form \in FullAuthForms :
        BadPasswordLogin(form)
        => /\ resp'.flashed = <<"Incorrect password.">>
           /\ load_logged_in_user(session', user') = NoRow

\* C7 as stated: after a login attempt with an existing username and a
\* wrong password, from any session state, the answer is the bad-password
\* error and the next request's current user is none.
C7_Original == [][C7_Original_Step]_vars

\* The condition C7 puts on every step (stated in full below).
C7_Step ==
    \A form \in FullAuthForms :
        BadPasswordLogin(form)
        => /\ resp'.status = 200
           /\ resp'.template = "auth/login.html"
           /\ resp'.flashed = <<"Incorrect password.">>
           /\ session' = session
           /\ load_logged_in_user(session', user') = CurrentUser

\* C7 amended: such an attempt is answered with the login form and the
\* bad-password error and leaves the session as it was: it establishes no
\* session, so the next request's current user is the one resolved before
\* the attempt (none when the attempt was made without a session).
C7_BadPassword == [][C7_Step]_vars

\* C7 witness: a login was answered with the bad-password error while the
\* client is logged in.
C7_Witness ==
    /\ req = [endpoint |-> "auth.login", method |-> "POST"]
    /\ resp.flashed = <<"Incorrect password.">>
    /\ CurrentUser # NoRow

\* A step that is a successful login.
LoginSucceeded ==
    /\ resp'.status \in 300..399
    /\ \E form \in FullAuthForms : Login("POST", form)

\* The condition C8 puts on every step (stated in full below).
C8_Step ==
    /\ Logout("GET") =>
          /\ view' = "logout"
          /\ session' = EmptySession
          /\ resp'.location = "/"
          /\ resp'.status \in 300..399
          /\ load_logged_in_user(session', user') = NoRow
    /\ (CurrentUser = NoRow /\ ~LoginSucceeded) =>
          load_logged_in_user(session', user') = NoRow

\* C8: a logout request is answered in every state, with or without a
\* session: the logout view runs, the session is left empty and the answer
\* is the redirect to the index; and once the current user resolves to
\* none (as it does after a logout) it stays none over every step that is
\* not a successful login.
C8_Logout == [][C8_Step]_vars

\* C8 witness: a logout was answered while users exist, and the session is
\* empty.
C8_Witness ==
    /\ req.endpoint = "auth.logout"
    /\ view = "logout"
    /\ session = EmptySession
    /\ user # EmptyTable

\* The condition C9 puts on every step (stated in full below).
C9_Step ==
    \A form \in FullAuthForms :
        Login("POST", form) =>
            LET ok == {i \in DOMAIN user :
                          /\ user[i].username = form["username"]
                          /\ check_password_hash(user[i].password,
                                                 form["password"])}
            IN  IF ok # {}
                THEN /\ DOMAIN session' = {"user_id"}
                     /\ session'["user_id"] \in ok
                     /\ load_logged_in_user(session', user') =
                            user[session'["user_id"]]
                     /\ resp'.location = "/"
                     /\ resp'.status \in 300..399
                ELSE /\ session' = session
                     /\ resp'.status = 200
                     /\ resp'.template = "auth/login.html"

\* C9: a login POST establishes a session exactly when the username is in
\* the user table and the password verifies against that row's hash: then
\* the session holds that user's id and nothing else, the answer is the
\* redirect to the index and the next request resolves to that user;
\* otherwise the session is left as it was and the login form comes back.
C9_Login == [][C9_Step]_vars

\* C9 witness: a login succeeded for the second registered user.
C9_Witness ==
    /\ req = [endpoint |-> "auth.login", method |-> "POST"]
    /\ resp.location = "/"
    /\ DOMAIN session = {"user_id"}
    /\ session["user_id"] = 2

\* The condition C10 puts on every step (stated in full below).
C10_Step ==
    \A form \in FullPostForms :
        (/\ CurrentUser # NoRow
         /\ form["title"] # ""
         /\ Create("POST", form, now + 1))
        => /\ \E new \in DOMAIN post' \ DOMAIN post :
                /\ DOMAIN post' = DOMAIN post \cup {new}
                /\ post'[new].author_id = CurrentUser.id
                /\ post'[new].title = form["title"]
                /\ post'[new].body = form["body"]
           /\ \A old \in DOMAIN post : post'[old] = post[old]
           /\ user' = user
           /\ resp'.location = "/"
           /\ resp'.status \in 300..399

\* C10: a logged-in user's POST to /create with a non-empty title (and a
\* body, possibly empty) adds exactly one post, authored by the current
\* user, with the submitted title and body; every existing post and every
\* user is unchanged; the answer is the redirect to the list.
C10_Create == [][C10_Step]_vars

\* C10 witness: bob, the second user, created a post with an empty body
\* while another post exists.
C10_Witness ==
    /\ req = [endpoint |-> "blog.create", method |-> "POST"]
    /\ resp.location = "/"
    /\ \E i, j \in DOMAIN post :
          /\ i # j
          /\ post[i].author_id = 2
          /\ post[i].body = ""
          /\ i = nextPostId - 1

\* The world after the step.
WorldAfter ==
    [user |-> user', post |-> post', nextPostId |-> nextPostId', now |-> now',
     session |-> session']

\* The condition C11 puts on every step (stated in full below).
C11_Step ==
    \A id \in DOMAIN post, form \in FullPostForms :
        (/\ CurrentUser # NoRow
         /\ post[id].author_id = CurrentUser.id
         /\ form["title"] # ""
         /\ Update(id, "POST", form))
        => /\ DOMAIN post' = DOMAIN post
           /\ post'[id].title = form["title"]
           /\ post'[id].body = form["body"]
           /\ post'[id].id = post[id].id
           /\ post'[id].author_id = post[id].author_id
           /\ post'[id].created = post[id].created
           /\ \A other \in DOMAIN post \ {id} : post'[other] = post[other]
           /\ user' = user

\* C11: the author's POST to /<id>/update with a non-empty title sets the
\* post's title and body to the submitted values; its id, author_id and
\* created, the set of posts, every other post and every user row are
\* unchanged.
C11_Update == [][C11_Step]_vars

\* C11 witness: an update POST was answered with the redirect to the list,
\* the updated post of two now reads 'u'/'b'.
C11_Witness ==
    /\ req = [endpoint |-> "blog.update", method |-> "POST"]
    /\ resp.location = "/"
    /\ Cardinality(DOMAIN post) = 2
    /\ \E i \in DOMAIN post : post[i].title = "u" /\ post[i].body = "b"

\* The condition C12 puts on every step (stated in full below).
C12_Step ==
    \A id \in DOMAIN post :
        (/\ CurrentUser # NoRow
         /\ post[id].author_id = CurrentUser.id
         /\ Delete(id, "POST"))
        => /\ DOMAIN post' = DOMAIN post \ {id}
           /\ \A other \in DOMAIN post \ {id} : post'[other] = post[other]
           /\ user' = user
           /\ resp'.location = "/"
           /\ resp'.status \in 300..399
           /\ delete(WorldAfter, load_logged_in_user(session', user'), id).resp
                 = abort(404)
           /\ delete(WorldAfter, load_logged_in_user(session', user'), id).w
                 = WorldAfter

\* C12: the author's POST to /<id>/delete removes exactly that post, leaves
\* every other post and every user row unchanged and redirects to the list;
\* a second delete of the same id by the same user, in the state the first
\* one leaves, is answered 404 and changes nothing.
C12_Delete == [][C12_Step]_vars

\* C12 witness: a delete was answered with the redirect to the list and
\* removed one of two posts.
C12_Witness ==
    /\ req = [endpoint |-> "blog.delete", method |-> "POST"]
    /\ resp.location = "/"
    /\ nextPostId = 3
    /\ Cardinality(DOMAIN post) = 1

\* A step that is a request to a guarded route (a method the route
\* accepts).
GuardedRequest ==
    \/ /\ req'.endpoint = "blog.create"
       /\ \E method \in Methods :
             \E form \in FormsOf(method, PostForms) :
                 Create(method, form, now + 1)
    \/ \E id \in UrlIds : UpdateOrDelete(id)

\* C14 as stated: every success redirect of the HTTP surface, and the
\* guard's redirect to login, carries status 303.
C14_Original == resp.location # "" => resp.status = 303

\* The condition C14 puts on every step, amended (stated in full below).
C14_Step ==
    /\ (/\ user' # user
        /\ \E form \in FullAuthForms, salt \in Salts :
              Register("POST", form, salt))
       => resp'.status = 302 /\ resp'.location = "/auth/login"
    /\ LoginSucceeded => resp'.status = 302 /\ resp'.location = "/"
    /\ Logout("GET") => resp'.status = 302 /\ resp'.location = "/"
    /\ (CurrentUser = NoRow /\ GuardedRequest)
       => resp'.status = 302 /\ resp'.location = "/auth/login"
    /\ (post' # post /\ GuardedRequest)
       => resp'.status = 302 /\ resp'.location = "/"
    /\ resp'.status \in 300..399 => resp'.status = 302

\* C14 amended: every success redirect carries status 302: successful
\* register (to /auth/login), successful login, logout, and every create,
\* update and delete that wrote (all to /), as well as the guard's redirect
\* of an anonymous caller to login; no answer is a 303.
C14_Redirects == [][C14_Step]_vars

\* C14 witness: a delete by the author was answered with a redirect to the
\* list.
C14_Witness ==
    /\ req = [endpoint |-> "blog.delete", method |-> "POST"]
    /\ view = "delete"
    /\ resp.location = "/"
    /\ resp.status \in 300..399

\* session.get('user_id'), 0 for None.
UserIdOf(sess) == IF "user_id" \in DOMAIN sess THEN sess["user_id"] ELSE 0

\* The condition C16 puts on every step (stated in full below).
C16_Step ==
    /\ UserIdOf(session') # UserIdOf(session)
       => \/ LoginSucceeded /\ UserIdOf(session') # 0
          \/ Logout("GET") /\ UserIdOf(session') = 0
    /\ UserIdOf(session') # UserIdOf(session)
       => ~(\/ \E method \in Methods, salt \in Salts :
                  \E form \in FormsOf(method, AuthForms) :
                      Register(method, form, salt)
            \/ \E method \in Methods : Index(method)
            \/ GuardedRequest
            \/ \E method \in Methods :
                  \E form \in FormsOf(method, AuthForms) :
                      Login(method, form) /\ resp'.status \notin 300..399)

\* C16: the session's user_id changes only through a successful login
\* (set) and through logout (cleared); register (successful or not), a
\* failed login, index, create, update and delete leave it as it was.
C16_SessionFrame == [][C16_Step]_vars

\* C16 witness: bob registered successfully while the client is logged in
\* as the first user, and the session still holds that user's id.
C16_Witness ==
    /\ req = [endpoint |-> "auth.register", method |-> "POST"]
    /\ resp.location = "/auth/login"
    /\ Cardinality(DOMAIN user) = 2
    /\ UserIdOf(session) = 1

\* The condition C15 puts on every step (stated in full below).
C15_Step ==
    Index("GET") =>
        LET listing == resp'.posts
        IN  /\ view' = "index"
            /\ resp'.status = 200
            /\ user' = user
            /\ post' = post
            /\ nextPostId' = nextPostId
            /\ session' = session
            /\ Len(listing) = Cardinality(DOMAIN post)
            /\ \A id \in DOMAIN post :
                  \E i \in 1..Len(listing) :
                      listing[i] =
                          [id |-> id, title |-> post[id].title,
                           body |-> post[id].body,
                           created |-> post[id].created,
                           author_id |-> post[id].author_id,
                           username |-> user[post[id].author_id].username]
            /\ \A i, j \in 1..Len(listing) :
                  i <= j => listing[i].created >= listing[j].created
            /\ index(WorldAfter).resp.posts = listing

HeldConns == {proc[c].g["db"] : c \in {d \in Clients : "db" \in DOMAIN proc[d].g}}

\* The condition C13 puts on every step (stated in full below).
C13_Step ==
    \A c \in Clients :
        LET p == proc[c]
            q == proc'[c]
        IN  /\ (p.pc = "idle" /\ q.pc # "idle") =>
                   /\ q.g = EmptyG /\ q.connects = 0 /\ conns' = conns
            /\ ("db" \in DOMAIN p.g /\ q.pc # "idle") =>
                   /\ "db" \in DOMAIN q.g /\ q.g["db"] = p.g["db"]
                   /\ q.connects = p.connects
                   /\ conns' = conns
            /\ ("db" \notin DOMAIN p.g /\ "db" \in DOMAIN q.g) =>
                   /\ q.g["db"] \notin conns
                   /\ conns' = conns \cup {q.g["db"]}
                   /\ q.connects = p.connects + 1
            /\ (p.pc = "teardown" /\ q.pc = "idle") =>
                   /\ q.g = EmptyG
                   /\ "db" \in DOMAIN p.g => p.g["db"] \notin conns'
            /\ q.connects <= 1
            /\ q.pc = "idle" => "db" \notin DOMAIN q.g
            /\ conns' = HeldConns'

\* C13: a request starts with an empty context and no connection; the first
\* get_db call opens one connection that was not open before, every later
\* call in the request leaves g.db and the open connections as they are (at
\* most one connect per request); when the request ends, with a response,
\* an abort or an unhandled error, its connection is closed and g is empty;
\* the open connections are always exactly those held by requests in flight.
C13_Connection == [][C13_Step]_vars

\* C13 witness: an update whose UPDATE failed leaves for teardown with the
\* one connection that the hook, get_post and the view shared.
C13_Witness ==
    /\ proc[ReqClient].pc = "teardown"
    /\ proc[ReqClient].rq.endpoint = "blog.update"
    /\ proc[ReqClient].ran = "update"
    /\ proc[ReqClient].e = 500
    /\ proc[ReqClient].connects = 1
    /\ conns = {proc[ReqClient].g["db"]}

\* The condition C17 puts on every step (stated in full below).
C17_Step ==
    \A c \in Clients :
        LET p == proc[c]
            q == proc'[c]
        IN  /\ (p.pc = "before" /\ q.pc = "view") =>
                   /\ "user" \in DOMAIN q.g
                   /\ q.g["user"] =
                          IF "user_id" \notin DOMAIN p.session
                          THEN NoRow
                          ELSE IF p.session["user_id"] \notin DOMAIN user
                               THEN NoRow
                               ELSE user[p.session["user_id"]]
            /\ ("user" \notin DOMAIN p.g /\ "user" \in DOMAIN q.g) =>
                   p.pc = "before"
            /\ p.pc \in {"view", "write"} => "user" \in DOMAIN p.g
            /\ ("user" \in DOMAIN p.g /\ q.pc # "idle") =>
                   /\ "user" \in DOMAIN q.g
                   /\ q.g["user"] = p.g["user"]

\* C17: the hook step, which runs before the guard and the view, sets g.user
\* to none when the session has no user_id or no user row has that id, and to
\* the user row with that id otherwise; g.user is set by no other step, the
\* guard and the view run only with g.user set, and until the request ends
\* every step leaves g.user as the hook set it.
C17_CurrentUser == [][C17_Step]_vars

\* C17 witness: a client logged in as one user has logged in as another;
\* the request still carries the row the hook fetched.
C17_Witness ==
    /\ proc[ReqClient].pc = "teardown"
    /\ proc[ReqClient].rq.endpoint = "auth.login"
    /\ proc[ReqClient].resp.status = 302
    /\ proc[ReqClient].g["user"] # NoRow
    /\ proc[ReqClient].session["user_id"] # proc[ReqClient].g["user"].id

\* A registration request with both fields filled in.
RegisterRq(rq) ==
    /\ rq.endpoint = "auth.register" /\ rq.method = "POST"
    /\ {"username", "password"} \subseteq DOMAIN rq.form
    /\ rq.form["username"] # "" /\ rq.form["password"] # ""

UsersNamed(users, username) ==
    {i \in DOMAIN users : users[i].username = username}

\* The condition C18 puts on every step (stated in full below).
C18_Step ==
    /\ \A i, j \in DOMAIN user' :
          user'[i].username = user'[j].username => i = j
    /\ \A c \in Clients :
          LET p == proc[c]
              q == proc'[c]
              username == p.rq.form["username"]
          IN  (p.pc = "view" /\ q.pc = "teardown" /\ RegisterRq(p.rq)) =>
                  IF UsersNamed(user, username) = {}
                  THEN /\ q.resp.status \in 300..399
                       /\ q.resp.location = "/auth/login"
                       /\ Cardinality(DOMAIN user') = Cardinality(DOMAIN user) + 1
                       /\ Cardinality(UsersNamed(user', username)) = 1
                       /\ \A i \in DOMAIN user : user'[i] = user[i]
                  ELSE /\ q.resp.location = ""
                       /\ q.resp.flashed = <<AlreadyRegistered(username)>>
                       /\ user' = user
    /\ \A c, d \in Clients :
          LET p == proc'[c]
              q == proc'[d]
          IN  (/\ c # d
               /\ p.pc = "teardown" /\ q.pc = "teardown"
               /\ RegisterRq(p.rq) /\ RegisterRq(q.rq)
               /\ p.rq.form["username"] = q.rq.form["username"]
               /\ p.resp.location # "")
              => /\ q.resp.location = ""
                 /\ q.resp.flashed = <<AlreadyRegistered(q.rq.form["username"])>>

\* C18: whatever the interleaving, no two user rows share a username; the
\* INSERT of a registration whose username no row has adds exactly one row
\* and is answered with the redirect to login, the INSERT of one whose
\* username a row has adds nothing and is answered with the
\* already-registered error; of two registrations of one username in flight
\* together, when one was answered with the redirect the other was answered
\* with the error.
C18_ConcurrentRegister == [][C18_Step]_vars

\* C18 witness: both clients registered bob at the same time; one holds the
\* redirect, the other the error, and there is one row for bob.
C18_Witness ==
    /\ \A c \in Clients :
          /\ proc[c].pc = "teardown"
          /\ proc[c].rq = Rq("auth.register", "POST", 0, Bob)
    /\ proc["c1"].resp.flashed = <<"User bob is already registered.">>
    /\ proc["c2"].resp.location = "/auth/login"
    /\ Cardinality(UsersNamed(user, "bob")) = 1

\* The posts a step writes to: rows it removes or changes.
Written == {id \in DOMAIN post : id \notin DOMAIN post' \/ post'[id] # post[id]}

\* The condition C19 puts on every step (stated in full below).
C19_Step ==
    \A c \in Clients :
        LET p == proc[c]
        IN  (p.pc = "write" /\ proc'[c].pc = "teardown") =>
                /\ p.g["user"] # NoRow
                /\ p.rq.id \in DOMAIN post =>
                       post[p.rq.id].author_id = p.g["user"].id
                /\ Written \subseteq {p.rq.id}
                /\ \A id \in Written : post[id].author_id = p.g["user"].id

C20_SuccessImpliesWritten ==
    \A c \in Clients :
        (/\ proc[c].pc = "teardown"
         /\ proc[c].ran \in {"update", "delete"}
         /\ proc[c].resp.location = "/")
        => proc[c].rowcount = 1

====
